---- MODULE Spec2Model ----
(***************************************************************************)
(* The reliable-transfer client of assignments/task-udp (src/main.rs):     *)
(* packetization, the table of unacknowledged packets, cumulative          *)
(* acknowledgments, timeout-driven and proactive retransmission, the       *)
(* anti-flooding recovery mode and the global deadline of transmit_loop.   *)
(*                                                                         *)
(* Time is in milliseconds since loop_start.  The clock advances only in   *)
(* the blocking receive of transmit_loop: by SOCKET_READ_TIMEOUT when the  *)
(* receive times out, by one of AckDelays when a datagram arrives.  The    *)
(* peer is chosen at the start: an answering one, whose datagrams may hold *)
(* any acknowledgment, a silent one, with which the run lasts until the    *)
(* global deadline, the server the module documentation describes, behind  *)
(* a network that loses and reorders datagrams, or one whose               *)
(* acknowledgments move forward far enough for the window to reach its     *)
(* upper limit.                                                            *)
(*                                                                         *)
(* congestion.rs and rtt.rs, which transmit_loop does not use, are         *)
(* followed on their own: any sequence of calls on a CongestionControl     *)
(* and on an RttEstimator.                                                 *)
(***************************************************************************)
EXTENDS Integers, Sequences, FiniteSets, TLC

\* ---------------------------------------------------------------- constants
MAX_PAYLOAD == 1200
INITIAL_RTO_MS == 1000
GLOBAL_TIMEOUT == 180000
SOCKET_READ_TIMEOUT == 5000
FLOOD_THRESHOLD == 5
INITIAL_WINDOW == 10
MAX_WINDOW == 50
RTO_CAP_MS == 30000

\* ------------------------------------------------------------------- bounds
\* the largest transfer, in full packets
MaxSegs == 10
\* the largest sequence number an acknowledgment datagram carries
MaxAckSeq == 11
\* a packet is retransmitted on timeout at most this many times
MaxRetry == 2
\* datagrams arrive while the clock is at most this far from loop_start
MaxClock == 8000
\* at most this many duplicate acknowledgments arrive in a row
MaxDupAcks == 3

\* ------------------------------------------------------------------- inputs
Sizes == {0, 600, 3000, 6000, MAX_PAYLOAD * MaxSegs + 600}
FillBytes == {65}
CheckNums == {1, 2}
AckSeqs == 0..MaxAckSeq
AckDelays == {0, 3000}

VARIABLES
    size,             \* transmit_loop's argument: bytes to transfer
    character,        \* transmit_loop's argument: the fill byte
    transmitted,      \* TransmissionState.transmitted
    next_seq,         \* TransmissionState.next_seq
    checknum,         \* TransmissionState.checknum
    unacked_packets,  \* TransmissionState.unacked_packets: seq -> PacketInfo
    last_acked_seq,   \* TransmissionState.last_acked_seq
    window_size,      \* TransmissionState.window_size
    now,              \* milliseconds elapsed since loop_start
    pc,               \* position of transmit_loop
    result,           \* what transmit_loop returned
    ack,              \* the acknowledgment being processed (old_acked, acked_seq)
    out,              \* the datagrams the last step handed to socket.send_to
    peer,             \* "answering": datagrams and socket errors may come;
                      \* "silent": every recv_from times out, the socket is sound;
                      \* "quirky": the server of the module documentation
                      \* behind a network that loses and reorders;
                      \* "forward": acknowledgments arrive at once (those of
                      \* GrowAcks in any order, or one for everything sent)
                      \* and the socket is sound
    dup_acks,         \* history: the consecutive acknowledgments received with
                      \* sequence == last_acked_seq (the program keeps no such count)
    rcv,              \* the server: its cumulative acknowledgment and its buffer
    net,              \* the packets on their way to the server (sequence numbers)
    acks,             \* the acknowledgments on their way to the client
    lost,             \* the datagrams the network has dropped so far
    cc,               \* a CongestionControl of congestion.rs: cwnd, ssthresh
    est               \* an RttEstimator of rtt.rs: srtt, rttvar, rto

vars == <<size, character, transmitted, next_seq, checknum, unacked_packets,
          last_acked_seq, window_size, now, pc, result, ack, out, peer,
          dup_acks, rcv, net, acks, lost, cc, est>>

\* the server and the network: they act only with the "quirky" peer
env == <<rcv, net, acks, lost>>

\* the modules congestion.rs and rtt.rs: transmit_loop uses neither
lib == <<cc, est>>

state == <<transmitted, next_seq, checknum, unacked_packets, last_acked_seq,
           window_size>>

\* ------------------------------------------------------------------ helpers
Min(a, b) == IF a < b THEN a ELSE b
Max(a, b) == IF a > b THEN a ELSE b

MinOf(S) == CHOOSE x \in S : \A y \in S : x <= y

MaxOf(S) == CHOOSE x \in S : \A y \in S : y <= x

\* Vec::sort / sort_by_key on sequence numbers (all >= 1): ascending order
SortedSeq(S) ==
    IF S = {} THEN <<>>
    ELSE LET InS(x) == x \in S IN SelectSeq([i \in 1..MaxOf(S) |-> i], InS)

\* Iterator::take
Take(s, n) == SubSeq(s, 1, Min(n, Len(s)))

\* u32::to_be_bytes
to_be_bytes(n) ==
    << (n \div 16777216) % 256, (n \div 65536) % 256, (n \div 256) % 256, n % 256 >>

\* u16::to_be_bytes of (payload_size as u16)
to_be_bytes16(n) == << ((n % 65536) \div 256) % 256, n % 256 >>

\* u32::from_be_bytes
from_be_bytes(b) == b[1] * 16777216 + b[2] * 65536 + b[3] * 256 + b[4]

\* create_packet: 4 bytes seq, 2 bytes payload length, then the payload, kept
\* as its length and its (single, repeated) byte
create_packet(seq, payload_size, ch) ==
    [hdr |-> to_be_bytes(seq) \o to_be_bytes16(payload_size),
     len |-> payload_size, fill |-> ch]

\* the sequence number and payload length a receiver reads from a packet
PacketSeq(p) == from_be_bytes(SubSeq(p.hdr, 1, 4))
PacketLen(p) == p.hdr[5] * 256 + p.hdr[6]

\* the sequence numbers of the datagrams of the last step
SeqsOf(o) == {PacketSeq(o[i].packet) : i \in 1..Len(o)}

\* floor(1000 * log2(n)) for n = 1..120, as f64 ln(n)/ln(2) gives it
Log2Milli ==
    << 0, 1000, 1584, 2000, 2321, 2584, 2807, 3000, 3169, 3321, 3459,
       3584, 3700, 3807, 3906, 4000, 4087, 4169, 4247, 4321, 4392,
       4459, 4523, 4584, 4643, 4700, 4754, 4807, 4857, 4906, 4954,
       5000, 5044, 5087, 5129, 5169, 5209, 5247, 5285, 5321, 5357,
       5392, 5426, 5459, 5491, 5523, 5554, 5584, 5614, 5643, 5672,
       5700, 5727, 5754, 5781, 5807, 5832, 5857, 5882, 5906, 5930,
       5954, 5977, 6000, 6022, 6044, 6066, 6087, 6108, 6129, 6149,
       6169, 6189, 6209, 6228, 6247, 6266, 6285, 6303, 6321, 6339,
       6357, 6375, 6392, 6409, 6426, 6442, 6459, 6475, 6491, 6507,
       6523, 6539, 6554, 6569, 6584, 6599, 6614, 6629, 6643, 6658,
       6672, 6686, 6700, 6714, 6727, 6741, 6754, 6768, 6781, 6794,
       6807, 6820, 6832, 6845, 6857, 6870, 6882, 6894, 6906 >>

\* mutant: the timeout doubles with every retry
calculate_rto_Doubling(retry_count) ==
    IF retry_count = 0 THEN INITIAL_RTO_MS
    ELSE Min(INITIAL_RTO_MS * (2 ^ Min(retry_count, 5)), RTO_CAP_MS)

\* calculate_rto, in milliseconds
calculate_rto(retry_count) ==
    IF retry_count = 0 THEN INITIAL_RTO_MS
    ELSE Min(Log2Milli[retry_count + 1], RTO_CAP_MS)

\* mutant: four bytes are taken for an acknowledgment with check number 0
parse_ack_FourBytes(ack_buf) ==
    IF Len(ack_buf) < 4 THEN [some |-> FALSE]
    ELSE [some |-> TRUE, acked_seq |-> from_be_bytes(ack_buf),
          checknum |-> IF Len(ack_buf) < 5 THEN 0 ELSE ack_buf[5]]

\* parse_ack: None for fewer than 5 bytes
parse_ack(ack_buf) ==
    IF Len(ack_buf) < 5 THEN [some |-> FALSE]
    ELSE [some |-> TRUE, acked_seq |-> from_be_bytes(ack_buf), checknum |-> ack_buf[5]]

\* the acknowledgment datagrams the socket may deliver, short ones included
AckDatagrams ==
    {to_be_bytes(s) \o <<c>> : s \in AckSeqs, c \in CheckNums}
        \cup {<<>>, <<0, 0, 0, 1>>}

NoAck == [some |-> FALSE]

EmptyTable == [s \in {} |-> 0]

\* unacked_packets.len()
Len_unacked == Cardinality(DOMAIN unacked_packets)

\* ------------------------------------------------------------ transmit_loop
\* mutant: the loop ends as soon as everything was sent once
LoopCond_TransmittedOnly == transmitted < size

\* the while condition of transmit_loop
LoopCond == transmitted < size \/ DOMAIN unacked_packets # {}

\* mutant: the deadline is noticed one receive timeout late
DeadlineExceeded_Late == now > GLOBAL_TIMEOUT + SOCKET_READ_TIMEOUT

\* loop_start.elapsed() > GLOBAL_TIMEOUT
DeadlineExceeded == now > GLOBAL_TIMEOUT

\* the fatal errors transmit_loop returns
GlobalTimeoutError == [ok |-> FALSE, error |-> "global timeout", remaining |-> Len_unacked]
SendError == [ok |-> FALSE, error |-> "send_to"]
NoResult == [ok |-> FALSE, error |-> "running"]

\* --------------------------------------------------------- send_new_packets
\* mutant: the window is not consulted
SendCond_NoWindow == transmitted < size

\* mutant: a packet is sent with the table as large as the window
SendCond_OneOver == transmitted < size /\ Len_unacked <= window_size

\* the while condition of send_new_packets
SendCond == transmitted < size /\ Len_unacked < window_size

\* mutant: every packet is filled to MAX_PAYLOAD
PayloadSize_Full == MAX_PAYLOAD

\* the payload size of the next new packet
PayloadSize == Min(size - transmitted, MAX_PAYLOAD)

\* the PacketInfo send_new_packets inserts
NewPacketInfo(seq, payload_size) ==
    [packet |-> create_packet(seq, payload_size, character),
     sent_time |-> now, retry_count |-> 0]

\* HashMap::insert
Insert(tbl, seq, info) ==
    [s \in DOMAIN tbl \cup {seq} |-> IF s = seq THEN info ELSE tbl[s]]

\* --------------------------------------------------------------- handle_ack
\* mutant: only the acknowledged packet itself is removed
AckedTable_OnlyExact(tbl, last, acked_seq) ==
    [s \in {k \in DOMAIN tbl : ~(last + 1 <= k /\ k = acked_seq)} |-> tbl[s]]

\* the table after the removal loop of handle_ack
AckedTable(tbl, last, acked_seq) ==
    [s \in {k \in DOMAIN tbl : ~(last + 1 <= k /\ k <= acked_seq)} |-> tbl[s]]

\* the check value handle_ack stores
AckedChecknum(old, acked_seq, chk) == chk

\* mutant: the window grows without limit
GrownWindow_NoLimit(w) == w + 1

\* mutant: the window doubles, as in slow start
GrownWindow_Doubles(w) == IF w < MAX_WINDOW THEN Min(w * 2, MAX_WINDOW) ELSE w

\* the window after an acknowledgment with new progress
GrownWindow(w) == IF w < MAX_WINDOW THEN w + 1 ELSE w

\* ------------------------------------------------ get_proactive_retransmits
\* the while loop: consecutive keys from seq on, at most n, up to the first gap
ConsecutiveFrom(tbl, seq, n) ==
    LET run == {m \in 0..n : \A j \in 0..(m - 1) : (seq + j) \in DOMAIN tbl}
        len == CHOOSE m \in run : \A m2 \in run : m2 <= m
    IN  [i \in 1..len |-> seq + i - 1]

\* mutant: an advance of 0 counts as a small advance too
get_proactive_retransmits_FromZero(tbl, last, ack_advance) ==
    IF ack_advance >= 0 /\ ack_advance <= 3 /\ DOMAIN tbl # {}
    THEN ConsecutiveFrom(tbl, last + 1, Max(Min(ack_advance * 2, 5), 1))
    ELSE <<>>

\* mutant: up to five packets whatever the advance
get_proactive_retransmits_AlwaysFive(tbl, last, ack_advance) ==
    IF ack_advance > 0 /\ ack_advance <= 3 /\ DOMAIN tbl # {}
    THEN ConsecutiveFrom(tbl, last + 1, 5)
    ELSE <<>>

get_proactive_retransmits(tbl, last, ack_advance) ==
    IF ack_advance > 0 /\ ack_advance <= 3 /\ DOMAIN tbl # {}
    THEN ConsecutiveFrom(tbl, last + 1, Min(ack_advance * 2, 5))
    ELSE <<>>

\* mutant: the distance between the two, whichever is larger
saturating_sub_AbsDiff(a, b) == IF a > b THEN a - b ELSE b - a

\* u32::saturating_sub
saturating_sub(a, b) == IF a > b THEN a - b ELSE 0

\* ----------------------------------------------------- check_and_retransmit
InRecovery(tbl) == Cardinality(DOMAIN tbl) >= FLOOD_THRESHOLD

\* the timeout a packet is held against
PacketRto(info, in_recovery) ==
    IF in_recovery THEN INITIAL_RTO_MS \div 2 ELSE calculate_rto(info.retry_count)

\* now.duration_since(info.sent_time) > rto
TimedOut(info, t, in_recovery) == t - info.sent_time > PacketRto(info, in_recovery)

\* mutant: check_and_retransmit finds nothing to send again
ToRetransmit_Nothing(tbl, last, win, t) == <<>>

\* mutant: every timed-out packet is sent again, however many there are
ToRetransmit_AllTimedOut(tbl, last, win, t) ==
    SortedSeq({s \in DOMAIN tbl : TimedOut(tbl[s], t, InRecovery(tbl))})

\* mutant: packet last + 1 is passed over
ToRetransmit_SkipsNextExpected(tbl, last, win, t) ==
    Take(SortedSeq({s \in DOMAIN tbl \ {last + 1} : TimedOut(tbl[s], t, InRecovery(tbl))}),
         IF InRecovery(tbl) THEN 5 ELSE 3)

\* the to_retransmit vector check_and_retransmit builds
ToRetransmit(tbl, last, win, t) ==
    LET next_expected == last + 1
        in_recovery == InRecovery(tbl)
        first == IF next_expected \in DOMAIN tbl
                    /\ TimedOut(tbl[next_expected], t, in_recovery)
                 THEN <<next_expected>> ELSE <<>>
    IN  IF first = <<>>
        THEN LET timed_out_packets ==
                     SortedSeq({s \in DOMAIN tbl : TimedOut(tbl[s], t, in_recovery)})
             IN  IF timed_out_packets = <<>>
                 THEN IF in_recovery /\ DOMAIN tbl # {}
                      THEN <<MinOf(DOMAIN tbl)>> ELSE <<>>
                 ELSE Take(timed_out_packets,
                           IF in_recovery THEN Min(Len(timed_out_packets), 5)
                           ELSE IF win <= 2 THEN 1
                           ELSE Min(Len(timed_out_packets), 3))
        ELSE LET timed_out_packets ==
                     SortedSeq({s \in DOMAIN tbl \ {next_expected} :
                                   TimedOut(tbl[s], t, in_recovery)})
             IN  first \o (IF in_recovery THEN Take(timed_out_packets, 4)
                           ELSE IF win > 1 THEN Take(timed_out_packets, 2)
                           ELSE <<>>)

\* mutant: the halved window is not held to 1
ReducedWindow_NoFloor(w, in_recovery) == IF in_recovery THEN w ELSE w \div 2

\* the window after a pass that resent something
ReducedWindow(w, in_recovery) == IF in_recovery THEN w ELSE Max(w \div 2, 1)

\* mutant: a packet sent again leaves the table
Resent_Forgets(tbl, seqs, t, bump) ==
    [s \in {k \in DOMAIN tbl : \A i \in 1..Len(seqs) : seqs[i] # k} |-> tbl[s]]

\* mutant: every resend counts as a retry
Resent_AlwaysCounts(tbl, seqs, t, bump) ==
    [s \in DOMAIN tbl |->
        IF \E i \in 1..Len(seqs) : seqs[i] = s
        THEN [tbl[s] EXCEPT !.sent_time = t, !.retry_count = @ + 1]
        ELSE tbl[s]]

\* the table after the packets of seqs were sent again at time t; bump is what
\* the resend adds to retry_count
Resent(tbl, seqs, t, bump) ==
    [s \in DOMAIN tbl |->
        IF \E i \in 1..Len(seqs) : seqs[i] = s
        THEN [tbl[s] EXCEPT !.sent_time = t, !.retry_count = @ + bump]
        ELSE tbl[s]]

\* the datagrams of a resend, as handed to socket.send_to
Datagrams(tbl, seqs, kind) ==
    [i \in 1..Len(seqs) |-> [kind |-> kind, packet |-> tbl[seqs[i]].packet]]

\* check_and_retransmit at time t with window win, the loop going on at next_pc.
\* k of the send_to calls succeed; the one after them, if any, fails and ends
\* the run.
CheckAndRetransmit(win, t, next_pc) ==
    \E to_retransmit \in {ToRetransmit(unacked_packets, last_acked_seq, win, t)},
       in_recovery \in {InRecovery(unacked_packets)} :
        /\ peer = "answering" =>
               \A i \in 1..Len(to_retransmit) :
                   unacked_packets[to_retransmit[i]].retry_count < MaxRetry
        /\ \E k \in 0..Len(to_retransmit) :
               /\ peer # "answering" => k = Len(to_retransmit)
               /\ unacked_packets' = Resent(unacked_packets, Take(to_retransmit, k), t, 1)
               /\ out' = Datagrams(unacked_packets, Take(to_retransmit, k), "retransmit")
               /\ IF k = Len(to_retransmit)
                  THEN /\ window_size' = IF to_retransmit = <<>> THEN win
                                         ELSE ReducedWindow(win, in_recovery)
                       /\ pc' = next_pc
                       /\ result' = result
                  ELSE /\ window_size' = win
                       /\ pc' = "failed"
                       /\ result' = SendError

\* ------------------------------------------------------------ congestion.rs
\* cwnd and ssthresh are f64 in the code; here they are exact fractions
\* <<numerator, denominator>> in lowest terms, so that 1.0 / cwnd is kept
\* without rounding.
INITIAL_CWND == 2
MIN_CWND == 1
MAX_CWND == 64
INITIAL_SSTHRESH == 64

\* a fraction is followed while its denominator is at most this
MaxDen == 300

RECURSIVE GCD(_, _)
GCD(a, b) == IF b = 0 THEN a ELSE GCD(b, a % b)

Frac(n, d) == <<n \div GCD(n, d), d \div GCD(n, d)>>
FAdd(a, b) == Frac(a[1] * b[2] + b[1] * a[2], a[2] * b[2])
FInv(a) == Frac(a[2], a[1])
FHalf(a) == Frac(a[1], 2 * a[2])
FLess(a, b) == a[1] * b[2] < b[1] * a[2]
FMin(a, b) == IF FLess(b, a) THEN b ELSE a
FMax(a, b) == IF FLess(a, b) THEN b ELSE a
FFloor(a) == a[1] \div a[2]

\* CongestionControl::new
CongestionControl_new ==
    [cwnd |-> Frac(INITIAL_CWND, 1), ssthresh |-> Frac(INITIAL_SSTHRESH, 1)]

\* mutant: the result is not held to MAX_CWND
on_ack_Unclamped(c) ==
    [c EXCEPT !.cwnd = IF FLess(c.cwnd, c.ssthresh)
                       THEN FAdd(c.cwnd, Frac(1, 1))
                       ELSE FAdd(c.cwnd, FInv(c.cwnd))]

\* CongestionControl::on_ack
on_ack(c) ==
    [c EXCEPT !.cwnd = FMin(IF FLess(c.cwnd, c.ssthresh)
                            THEN FAdd(c.cwnd, Frac(1, 1))
                            ELSE FAdd(c.cwnd, FInv(c.cwnd)),
                            Frac(MAX_CWND, 1))]

\* mutant: the window goes back to its initial size
on_timeout_ToInitial(c) ==
    [cwnd |-> Frac(INITIAL_CWND, 1),
     ssthresh |-> FMax(FHalf(c.cwnd), Frac(MIN_CWND, 1))]

\* CongestionControl::on_timeout
on_timeout(c) ==
    [cwnd |-> Frac(MIN_CWND, 1),
     ssthresh |-> FMax(FHalf(c.cwnd), Frac(MIN_CWND, 1))]

\* mutant: fast retransmit handled as a timeout
on_fast_retransmit_AsTimeout(c) ==
    [cwnd |-> Frac(MIN_CWND, 1),
     ssthresh |-> FMax(FHalf(c.cwnd), Frac(MIN_CWND, 1))]

\* CongestionControl::on_fast_retransmit
on_fast_retransmit(c) ==
    [cwnd |-> FMax(FHalf(c.cwnd), Frac(MIN_CWND, 1)),
     ssthresh |-> FMax(FHalf(c.cwnd), Frac(MIN_CWND, 1))]

\* CongestionControl::window
window(c) == FFloor(c.cwnd)

\* ------------------------------------------------------------------- rtt.rs
\* srtt and rttvar are f64 milliseconds in the code; here they are integers
\* in units of 1 / RttScale ms.  After n samples srtt is a multiple of
\* 1 / 8^n ms and rttvar of 1 / (4 * 8^(n-1)) ms, so with at most MaxUpdates
\* samples every value is kept exactly, as f64 keeps it.
RttEstimator_INITIAL_RTO_MS == 1000
MIN_RTO_MS == 200
MAX_RTO_MS == 10000

\* an estimator is followed for this many samples
MaxUpdates == 3

RttScale == 8 ^ MaxUpdates

\* the round-trip samples, in milliseconds
RttSamples == {0, 1, 40, 120, 500, 4000}

Abs(x) == IF x < 0 THEN -x ELSE x

\* f64::clamp
Clamp(x, lo, hi) == IF x < lo THEN lo ELSE IF x > hi THEN hi ELSE x

\* RttEstimator::new; samples is history: the number of update calls so far
RttEstimator_new ==
    [srtt |-> 0, rttvar |-> 0, rto |-> RttEstimator_INITIAL_RTO_MS, samples |-> 0]

\* mutant: the sum is taken as it is
update_rto_Unclamped(e) ==
    [e EXCEPT !.rto = (e.srtt + 4 * e.rttvar) \div RttScale]

\* RttEstimator::update_rto; (rto_ms as u64) drops the fraction
update_rto(e) ==
    [e EXCEPT !.rto = Clamp(e.srtt + 4 * e.rttvar,
                            MIN_RTO_MS * RttScale, MAX_RTO_MS * RttScale)
                          \div RttScale]

\* RttEstimator::update
update(e, rtt_ms) ==
    update_rto(IF e.srtt = 0
               THEN [e EXCEPT !.srtt = rtt_ms * RttScale,
                              !.rttvar = (rtt_ms * RttScale) \div 2]
               ELSE [e EXCEPT !.rttvar = (3 * e.rttvar
                                          + Abs(e.srtt - rtt_ms * RttScale)) \div 4,
                              !.srtt = (7 * e.srtt + rtt_ms * RttScale) \div 8])

\* mutant: the doubled value is not held to MAX_RTO_MS
backoff_Uncapped(e) == [e EXCEPT !.rto = e.rto * 2]

\* RttEstimator::backoff
backoff(e) == [e EXCEPT !.rto = Min(e.rto * 2, MAX_RTO_MS)]

\* ------------------------------------------------------------------ actions
\* TransmissionState as transmit_loop builds it, nothing sent or received yet
Fresh ==
    /\ character \in FillBytes
    /\ transmitted = 0
    /\ next_seq = 1
    /\ checknum = 0
    /\ unacked_packets = EmptyTable
    /\ last_acked_seq = 0
    /\ window_size = INITIAL_WINDOW
    /\ now = 0
    /\ pc = "loop"
    /\ result = NoResult
    /\ ack = NoAck
    /\ out = <<>>
    /\ dup_acks = 0
    /\ rcv = [acked |-> 0, buffered |-> {}, left |-> FALSE]
    /\ net = {}
    /\ acks = {}
    /\ lost = 0
    /\ cc = CongestionControl_new
    /\ est = RttEstimator_new

Init ==
    /\ size \in Sizes
    /\ peer \in {"answering", "silent"}
    /\ Fresh

\* the loop condition fails: Ok(state.checknum)
LoopExit ==
    /\ pc = "loop"
    /\ ~LoopCond
    /\ pc' = "done"
    /\ result' = [ok |-> TRUE, value |-> checknum]
    /\ out' = <<>>
    /\ UNCHANGED <<lib, env, size, character, peer, dup_acks, state, now, ack>>

\* the global timeout check at the head of an iteration
GlobalTimeout ==
    /\ pc = "loop"
    /\ LoopCond
    /\ DeadlineExceeded
    /\ pc' = "failed"
    /\ result' = GlobalTimeoutError
    /\ out' = <<>>
    /\ UNCHANGED <<lib, env, size, character, peer, dup_acks, state, now, ack>>

\* mutant: the recovery branch leaves the window as it is
Recovery_KeepsWindow ==
    /\ pc = "loop"
    /\ LoopCond
    /\ ~DeadlineExceeded
    /\ Len_unacked >= FLOOD_THRESHOLD
    /\ CheckAndRetransmit(window_size, now, "recv")
    /\ UNCHANGED <<lib, env, size, character, peer, dup_acks, transmitted, next_seq, checknum,
                   last_acked_seq, now, ack>>

\* the anti-flooding branch: window to 1, then check_and_retransmit
Recovery ==
    /\ pc = "loop"
    /\ LoopCond
    /\ ~DeadlineExceeded
    /\ Len_unacked >= FLOOD_THRESHOLD
    /\ CheckAndRetransmit(IF window_size > 1 THEN 1 ELSE window_size, now, "recv")
    /\ UNCHANGED <<lib, env, size, character, peer, dup_acks, transmitted, next_seq, checknum,
                   last_acked_seq, now, ack>>

\* the normal branch: send_new_packets is entered; its own flood check
StartSend ==
    /\ pc = "loop"
    /\ LoopCond
    /\ ~DeadlineExceeded
    /\ Len_unacked < FLOOD_THRESHOLD
    /\ pc' = IF Len_unacked >= FLOOD_THRESHOLD THEN "recv" ELSE "send"
    /\ out' = <<>>
    /\ UNCHANGED <<lib, env, size, character, peer, dup_acks, state, now, result, ack>>

\* one iteration of the while loop of send_new_packets
SendNew ==
    /\ pc = "send"
    /\ SendCond
    /\ LET info == NewPacketInfo(next_seq, PayloadSize)
       IN  /\ unacked_packets' = Insert(unacked_packets, next_seq, info)
           /\ transmitted' = transmitted + PayloadSize
           /\ next_seq' = next_seq + 1
           /\ out' = <<[kind |-> "new", packet |-> info.packet]>>
    /\ UNCHANGED <<lib, env, size, character, peer, dup_acks, checknum, last_acked_seq, window_size,
                   now, pc, result, ack>>

\* socket.send_to fails in send_new_packets
SendNewFails ==
    /\ pc = "send"
    /\ SendCond
    /\ peer = "answering"
    /\ pc' = "failed"
    /\ result' = SendError
    /\ out' = <<>>
    /\ UNCHANGED <<lib, env, size, character, peer, dup_acks, state, now, ack>>

\* the while loop of send_new_packets ends
SendDone ==
    /\ pc = "send"
    /\ ~SendCond
    /\ pc' = "recv"
    /\ out' = <<>>
    /\ UNCHANGED <<lib, env, size, character, peer, dup_acks, state, now, result, ack>>

\* mutant: any acknowledgment other than a duplicate is taken, a stale one too
HandleAck_TakesStale(ack_buf, d) ==
    /\ pc = "recv"
    /\ parse_ack(ack_buf).some
    /\ LET acked_seq == parse_ack(ack_buf).acked_seq
           chk == parse_ack(ack_buf).checknum
       IN  /\ checknum' = AckedChecknum(last_acked_seq, acked_seq, chk)
           /\ IF acked_seq # last_acked_seq
              THEN /\ unacked_packets' =
                          AckedTable(unacked_packets, last_acked_seq, acked_seq)
                   /\ last_acked_seq' = acked_seq
                   /\ window_size' = GrownWindow(window_size)
              ELSE UNCHANGED <<unacked_packets, last_acked_seq, window_size>>
           /\ ack' = [some |-> TRUE, old_acked |-> last_acked_seq,
                      acked_seq |-> acked_seq, checknum |-> chk]
           /\ dup_acks' = IF acked_seq = last_acked_seq
                          THEN Min(dup_acks + 1, MaxDupAcks) ELSE 0
    /\ now' = now + d
    /\ pc' = "proactive"
    /\ out' = <<>>
    /\ UNCHANGED <<lib, size, character, peer, transmitted, next_seq, result>>

\* the Ok arm of recv_from for a datagram of at least 5 bytes, arriving after
\* d milliseconds: parse_ack, handle_ack
HandleAck(ack_buf, d) ==
    /\ pc = "recv"
    /\ parse_ack(ack_buf).some
    /\ LET acked_seq == parse_ack(ack_buf).acked_seq
           chk == parse_ack(ack_buf).checknum
       IN  /\ checknum' = AckedChecknum(last_acked_seq, acked_seq, chk)
           /\ IF acked_seq > last_acked_seq
              THEN /\ unacked_packets' =
                          AckedTable(unacked_packets, last_acked_seq, acked_seq)
                   /\ last_acked_seq' = acked_seq
                   /\ window_size' = GrownWindow(window_size)
              ELSE UNCHANGED <<unacked_packets, last_acked_seq, window_size>>
           /\ ack' = [some |-> TRUE, old_acked |-> last_acked_seq,
                      acked_seq |-> acked_seq, checknum |-> chk]
           /\ dup_acks' = IF acked_seq = last_acked_seq
                          THEN Min(dup_acks + 1, MaxDupAcks) ELSE 0
    /\ now' = now + d
    /\ pc' = "proactive"
    /\ out' = <<>>
    /\ UNCHANGED <<lib, size, character, peer, transmitted, next_seq, result>>

\* recv_from returns a datagram of at least 5 bytes, whatever it holds
RecvAck(ack_buf, d) ==
    /\ peer = "answering"
    /\ now + d <= MaxClock
    /\ parse_ack(ack_buf).some
    /\ parse_ack(ack_buf).acked_seq = last_acked_seq => dup_acks < MaxDupAcks
    /\ HandleAck(ack_buf, d)
    /\ UNCHANGED env

\* recv_from returns fewer than 5 bytes: parse_ack gives None
RecvShort(ack_buf, d) ==
    /\ pc = "recv"
    /\ peer = "answering"
    /\ now + d <= MaxClock
    /\ ~parse_ack(ack_buf).some
    /\ now' = now + d
    /\ pc' = "loop"
    /\ out' = <<>>
    /\ UNCHANGED <<lib, env, size, character, peer, dup_acks, state, result, ack>>

\* the Ok arm of recv_from for the datagram ack_buf
RecvDatagram(ack_buf, d) == RecvAck(ack_buf, d) \/ RecvShort(ack_buf, d)

\* the proactive retransmissions after handle_ack; k of the send_to calls
\* succeed, the one after them, if any, fails and ends the run
Proactive ==
    /\ pc = "proactive"
    /\ \E proactive_retransmits \in
              {get_proactive_retransmits(unacked_packets, last_acked_seq,
                                         saturating_sub(ack.acked_seq, ack.old_acked))} :
           \E k \in 0..Len(proactive_retransmits) :
               /\ peer # "answering" => k = Len(proactive_retransmits)
               /\ unacked_packets' =
                      Resent(unacked_packets, Take(proactive_retransmits, k), now, 0)
               /\ out' = Datagrams(unacked_packets, Take(proactive_retransmits, k),
                                   "proactive")
               /\ IF k = Len(proactive_retransmits)
                  THEN pc' = "loop" /\ result' = result
                  ELSE pc' = "failed" /\ result' = SendError
    /\ ack' = NoAck
    /\ UNCHANGED <<lib, env, size, character, peer, dup_acks, transmitted, next_seq, checknum,
                   last_acked_seq, window_size, now>>

\* recv_from times out (WouldBlock / TimedOut): check_and_retransmit
RecvTimeout ==
    /\ pc = "recv"
    /\ peer = "answering" => now + SOCKET_READ_TIMEOUT <= MaxClock
    /\ now' = now + SOCKET_READ_TIMEOUT
    /\ CheckAndRetransmit(window_size, now + SOCKET_READ_TIMEOUT, "loop")
    /\ UNCHANGED <<lib, env, size, character, peer, dup_acks, transmitted, next_seq, checknum,
                   last_acked_seq, ack>>

\* recv_from fails with another error: it is logged and the loop goes on
RecvError ==
    /\ pc = "recv"
    /\ peer = "answering"
    /\ pc' = "loop"
    /\ out' = <<>>
    /\ UNCHANGED <<lib, env, size, character, peer, dup_acks, state, now, result, ack>>

Next ==
    \/ LoopExit
    \/ GlobalTimeout
    \/ Recovery
    \/ StartSend
    \/ SendNew
    \/ SendNewFails
    \/ SendDone
    \/ RecvError
    \/ \E ack_buf \in AckDatagrams, d \in AckDelays : RecvAck(ack_buf, d)
    \/ \E ack_buf \in AckDatagrams, d \in AckDelays : RecvShort(ack_buf, d)
    \/ Proactive
    \/ RecvTimeout

Spec == Init /\ [][Next]_vars

\* the run against a peer that never answers: only these steps can happen
NextSilent ==
    \/ LoopExit
    \/ GlobalTimeout
    \/ Recovery
    \/ StartSend
    \/ SendNew
    \/ SendDone
    \/ RecvTimeout

\* transmit_loop is one sequential thread and recv_from returns within
\* SOCKET_READ_TIMEOUT: a step that can be taken is taken
InitSilent == Init /\ peer = "silent"

SpecSilent == InitSilent /\ [][NextSilent]_vars /\ WF_vars(NextSilent)

\* ------------------------------------------------ the server and the network
\* The server is not part of the repository: it is modelled after the module
\* documentation of main.rs.  It acknowledges every packet that arrives with
\* the highest consecutive sequence number it has processed; a packet beyond
\* the next expected one is buffered; when the next expected packet arrives
\* it processes that packet and then at least one buffered packet that
\* follows it, at most the whole consecutive run, and leaves the rest
\* buffered until the next expected packet arrives anew.

\* the network drops at most this many datagrams in a run
MaxLoss == 2

\* the transfers run against the server: one below FLOOD_THRESHOLD packets,
\* one that reaches it
QuirkSizes == {3000, MAX_PAYLOAD * FLOOD_THRESHOLD}

\* the check number: a fixed function of the acknowledged sequence number
CheckOf(n) == 1 + (n % 2)

\* the length of the run of buffered packets that follows seq
BufferedRun(buffered, seq) ==
    MaxOf({m \in 0..Cardinality(buffered) : \A j \in 1..m : (seq + j) \in buffered})

\* how many buffered packets the server may process after the packet seq
Consumable(r, seq) ==
    IF seq = r.acked + 1
    THEN Min(1, BufferedRun(r.buffered, seq))..BufferedRun(r.buffered, seq)
    ELSE {0}

\* the server after the packet seq arrived and j buffered packets were processed;
\* left records that a buffered packet stayed behind a filled gap
Received(r, seq, j) ==
    IF seq = r.acked + 1
    THEN [acked |-> seq + j,
          buffered |-> {b \in r.buffered : b > seq + j},
          left |-> r.left \/ (seq + j + 1) \in r.buffered]
    ELSE IF seq > r.acked + 1
    THEN [r EXCEPT !.buffered = @ \cup {seq}]
    ELSE r

\* the acknowledgment datagram of the server
AckOf(r) == to_be_bytes(r.acked) \o <<CheckOf(r.acked)>>

\* the client has no datagram left to hand to the network
Handed == peer = "quirky" /\ out = <<>>

\* the client is blocked in recv_from: the steps between two receives take no
\* time, the network and the server act while the client waits
Waiting == Handed /\ pc = "recv"

\* the datagrams of the last step enter the network
Pickup ==
    /\ peer = "quirky"
    /\ out # <<>>
    /\ net' = net \cup SeqsOf(out)
    /\ out' = <<>>
    /\ UNCHANGED <<lib, size, character, peer, dup_acks, state, now, pc, result, ack,
                   rcv, acks, lost>>

\* a packet reaches the server, which answers with its acknowledgment
Deliver(seq) ==
    /\ Waiting
    /\ seq \in net
    /\ net' = net \ {seq}
    /\ \E j \in Consumable(rcv, seq) :
           \E r \in {Received(rcv, seq, j)} :
               /\ rcv' = r
               /\ acks' = acks \cup {AckOf(r)}
    /\ UNCHANGED <<lib, size, character, peer, dup_acks, state, now, pc, result, ack,
                   out, lost>>

\* the network drops a packet
LosePacket(seq) ==
    /\ Waiting
    /\ seq \in net
    /\ lost < MaxLoss
    /\ net' = net \ {seq}
    /\ lost' = lost + 1
    /\ UNCHANGED <<lib, size, character, peer, dup_acks, state, now, pc, result, ack,
                   out, rcv, acks>>

\* the network drops an acknowledgment
LoseAck(a) ==
    /\ Waiting
    /\ a \in acks
    /\ lost < MaxLoss
    /\ acks' = acks \ {a}
    /\ lost' = lost + 1
    /\ UNCHANGED <<lib, size, character, peer, dup_acks, state, now, pc, result, ack,
                   out, rcv, net>>

\* recv_from returns an acknowledgment of the server, in any order
RecvServerAck(a) ==
    /\ Handed
    /\ a \in acks
    /\ acks' = acks \ {a}
    /\ HandleAck(a, 0)
    /\ UNCHANGED <<rcv, net, lost>>

\* recv_from times out: nothing is on its way to the server or to the client
RecvServerSilent ==
    /\ Handed
    /\ net = {}
    /\ acks = {}
    /\ RecvTimeout

\* the run against the server, the global deadline aside
NextQuirk ==
    \/ Handed /\ LoopExit
    \/ Handed /\ Recovery
    \/ Handed /\ StartSend
    \/ Handed /\ SendNew
    \/ Handed /\ SendDone
    \/ Handed /\ Proactive
    \/ \E a \in acks : RecvServerAck(a)
    \/ RecvServerSilent
    \/ Pickup
    \/ \E seq \in net : Deliver(seq)
    \/ \E seq \in net : LosePacket(seq)
    \/ \E a \in acks : LoseAck(a)

InitQuirk ==
    /\ size \in QuirkSizes
    /\ peer = "quirky"
    /\ Fresh

\* the client takes the step it can take, and the network delivers or drops
\* what is on its way
SpecQuirk == InitQuirk /\ [][NextQuirk]_vars /\ WF_vars(NextQuirk)

\* ------------------------------------------------- the window at its limits
\* The window reaches MAX_WINDOW after forty acknowledgments with new
\* progress and is halved at 1 after a recovery and two timeouts: a run with
\* acknowledgments 11, 12, ... that arrive at once, and with receive timeouts
\* up to MaxGrowClock.

\* the largest sequence number such an acknowledgment carries
MaxGrowAck == 51

\* receive timeouts happen while the clock is at most this far from loop_start
MaxGrowClock == 15000

GrowAcks == {to_be_bytes(s) \o <<1>> : s \in 8..MaxGrowAck}

\* recv_from returns an acknowledgment at once
RecvGrowAck(a) ==
    /\ peer = "forward"
    /\ HandleAck(a, 0)
    /\ UNCHANGED env

\* recv_from times out
RecvGrowTimeout ==
    /\ peer = "forward"
    /\ now + SOCKET_READ_TIMEOUT <= MaxGrowClock
    /\ RecvTimeout

NextGrow ==
    \/ LoopExit
    \/ Recovery
    \/ StartSend
    \/ SendNew
    \/ SendDone
    \/ Proactive
    \/ \E a \in GrowAcks : RecvGrowAck(a)
    \/ RecvGrowTimeout

InitGrow ==
    /\ size = MAX_PAYLOAD * MaxSegs + 600
    /\ peer = "forward"
    /\ Fresh

SpecGrow == InitGrow /\ [][NextGrow]_vars

\* ------------------------------------------------------ the table at its limit
\* The table holds MAX_WINDOW packets only in a long transfer: every send
\* phase fills the table up to the window, and the window grows by one when
\* the acknowledgment for everything sent arrives before the next iteration
\* begins: 10 + 11 + ... + 49 packets until the window is 50, then 50 at once.

\* the length of that transfer, in full packets
MaxFillSegs == 1240

\* the acknowledgment for everything sent so far
AckAll == to_be_bytes(next_seq - 1) \o <<1>>

\* recv_from returns it at once
RecvAckAll ==
    /\ peer = "forward"
    /\ HandleAck(AckAll, 0)
    /\ UNCHANGED env

NextFill ==
    \/ LoopExit
    \/ StartSend
    \/ SendNew
    \/ SendDone
    \/ RecvAckAll
    \/ Proactive

InitFill ==
    /\ size = MAX_PAYLOAD * MaxFillSegs
    /\ peer = "forward"
    /\ Fresh

SpecFill == InitFill /\ [][NextFill]_vars

\* ------------------------------------------- congestion.rs and rtt.rs alone
\* transmit_loop's own variables, which the calls below leave alone
client == <<size, character, peer, dup_acks, state, now, pc, result, ack, out>>

OnAck ==
    /\ on_ack(cc).cwnd[2] <= MaxDen
    /\ cc' = on_ack(cc)
    /\ UNCHANGED <<client, env, est>>

OnTimeout ==
    /\ cc' = on_timeout(cc)
    /\ UNCHANGED <<client, env, est>>

OnFastRetransmit ==
    /\ on_fast_retransmit(cc).cwnd[2] <= MaxDen
    /\ cc' = on_fast_retransmit(cc)
    /\ UNCHANGED <<client, env, est>>

Update(rtt_ms) ==
    /\ est.samples < MaxUpdates
    /\ est' = [update(est, rtt_ms) EXCEPT !.samples = @ + 1]
    /\ UNCHANGED <<client, env, cc>>

Backoff ==
    /\ est' = backoff(est)
    /\ UNCHANGED <<client, env, cc>>

\* no transfer is running
InitLib ==
    /\ size = 0
    /\ peer = "silent"
    /\ Fresh

\* any sequence of calls on a CongestionControl
NextCC ==
    \/ OnAck
    \/ OnTimeout
    \/ OnFastRetransmit

SpecCC == InitLib /\ [][NextCC]_vars

\* any sequence of calls on an RttEstimator
NextRtt ==
    \/ \E rtt_ms \in RttSamples : Update(rtt_ms)
    \/ Backoff

SpecRtt == InitLib /\ [][NextRtt]_vars

\* ------------------------------------------------------------------- claims
\* the new packets among the datagrams of the last step
NewPackets(o) == {i \in 1..Len(o) : o[i].kind = "new"}

CeilDiv(a, b) == (a + b - 1) \div b

\* C1: every key of the table of unacknowledged packets is strictly greater
\* than last_acked_seq, whatever acknowledgments are received.
C1_KeysAboveLastAcked ==
    \A k \in DOMAIN unacked_packets : k > last_acked_seq

\* C1, the part the code keeps: an entry leaves the table only in handle_ack,
\* within the acknowledged range, and a key that left is never inserted again
\* (a key enters only as next_seq, which then moves past it).
C1_RemovedOnlyByAck ==
    [][
        /\ \A k \in DOMAIN unacked_packets \ DOMAIN unacked_packets' :
              /\ pc = "recv" /\ pc' = "proactive"
              /\ last_acked_seq < k /\ k <= last_acked_seq'
        /\ \A j \in DOMAIN unacked_packets' \ DOMAIN unacked_packets :
              j = next_seq /\ next_seq' = j + 1
        /\ next_seq' >= next_seq
    ]_vars

\* C2: transmit_loop returns a check value only when transmitted == size and
\* the table is empty; the value is the stored check value; every other end
\* of the run is an error.
C2_CheckValueOnlyOnCompletion ==
    /\ pc = "done" =>
          /\ result.ok
          /\ result.value = checknum
          /\ transmitted = size
          /\ DOMAIN unacked_packets = {}
    /\ pc = "failed" => ~result.ok /\ result.error \in {"global timeout", "send_to"}
    /\ pc \notin {"done", "failed"} => result = NoResult

C2_Witness ==
    pc = "done" /\ size > MAX_PAYLOAD * INITIAL_WINDOW /\ result.ok /\ result.value \in CheckNums

\* C3: when no acknowledgment ever arrives and size > 0, the run never returns
\* a check value; the deadline is checked at the head of every iteration, so
\* the first iteration that starts with more than GLOBAL_TIMEOUT elapsed ends
\* the run with the global-timeout error; and that end is reached.
C3_SilentPeerEndsInGlobalTimeout ==
    /\ [](size > 0 => pc # "done")
    /\ [][(pc = "loop" /\ LoopCond /\ now > GLOBAL_TIMEOUT) =>
              (pc' = "failed" /\ result' = GlobalTimeoutError)]_vars
    /\ [][(pc = "loop" /\ now <= GLOBAL_TIMEOUT) => pc' # "failed"]_vars
    /\ (size > 0 ~> (pc = "failed" /\ result.error = "global timeout"))

C3_Witness ==
    /\ pc = "failed"
    /\ result = GlobalTimeoutError
    /\ transmitted < size
    /\ now > GLOBAL_TIMEOUT

\* C5: new packets carry next_seq, which then advances by one, and
\* min(remaining, MAX_PAYLOAD) bytes of the fill byte; so transmitted is
\* min(size, MAX_PAYLOAD * number of new packets), never above size, and only
\* the last packet is shorter than MAX_PAYLOAD.
C5_Packetization ==
    /\ [](transmitted = Min(size, MAX_PAYLOAD * (next_seq - 1)))
    /\ [][next_seq' # next_seq =>
            /\ next_seq' = next_seq + 1
            /\ Len(out') = 1
            /\ out'[1].kind = "new"
            /\ PacketSeq(out'[1].packet) = next_seq
            /\ PacketLen(out'[1].packet) = Min(size - transmitted, MAX_PAYLOAD)
            /\ out'[1].packet.len = Min(size - transmitted, MAX_PAYLOAD)
            /\ out'[1].packet.fill = character
            /\ transmitted' = transmitted + out'[1].packet.len
            /\ out'[1].packet.len < MAX_PAYLOAD => transmitted' = size]_vars
    /\ [][NewPackets(out') # {} => next_seq' = next_seq + 1]_vars

\* 3000 bytes: the third packet is number 3 and carries the last 600 bytes
C5_Witness ==
    /\ size = 3000
    /\ transmitted = 3000
    /\ Len(out) = 1
    /\ out[1].kind = "new"
    /\ PacketSeq(out[1].packet) = 3
    /\ PacketLen(out[1].packet) = 600
    /\ DOMAIN unacked_packets = {1, 2, 3}
    /\ unacked_packets[2].packet.len = MAX_PAYLOAD

\* no acknowledgment was processed so far: handle_ack stores the check value
\* of every acknowledgment, and none of CheckNums is the initial 0
NoAckYet == checknum = 0

\* C6: a new packet is sent only while bytes remain and the table holds fewer
\* entries than window_size, and enters the table with retry_count 0; before
\* any acknowledgment min(ceil(size / MAX_PAYLOAD), INITIAL_WINDOW) packets
\* are emitted (once the first send phase is over, send_to not failing).
C6_SendBudget ==
    /\ [][NewPackets(out') # {} =>
            /\ transmitted < size
            /\ Len_unacked < window_size
            /\ next_seq \in DOMAIN unacked_packets'
            /\ unacked_packets'[next_seq].retry_count = 0]_vars
    /\ []((NoAckYet /\ result # SendError /\ pc # "send" /\ ~(pc = "loop" /\ now = 0)) =>
            next_seq - 1 = Min(CeilDiv(size, MAX_PAYLOAD), INITIAL_WINDOW))

\* the window stops the first send phase with bytes left over
C6_Witness ==
    /\ NoAckYet
    /\ pc = "recv"
    /\ transmitted < size
    /\ Len_unacked = INITIAL_WINDOW
    /\ next_seq - 1 = INITIAL_WINDOW
    /\ \A k \in DOMAIN unacked_packets : unacked_packets[k].retry_count = 0

\* the step in which recv_from returned an acknowledgment and handle_ack ran
HandleAckStep == pc = "recv" /\ pc' = "proactive"

C8_ThirdDuplicateRetransmits ==
    [][(/\ pc = "proactive"
        /\ ack.acked_seq = ack.old_acked
        /\ dup_acks = 3
        /\ (last_acked_seq + 1) \in DOMAIN unacked_packets
        /\ pc' = "loop") =>
            (last_acked_seq + 1) \in SeqsOf(out')]_vars

\* C8, amended: an acknowledgment with sequence == last_acked_seq, however
\* many came before it, changes neither the table nor the window and sends
\* nothing.
C8_DuplicateAckTriggersNothing ==
    /\ [][(HandleAckStep /\ ack'.acked_seq = last_acked_seq) =>
            /\ unacked_packets' = unacked_packets
            /\ window_size' = window_size
            /\ last_acked_seq' = last_acked_seq
            /\ out' = <<>>]_vars
    /\ [][(pc = "proactive" /\ ack.acked_seq = ack.old_acked) =>
            /\ unacked_packets' = unacked_packets
            /\ window_size' = window_size
            /\ out' = <<>>
            /\ pc' = "loop"]_vars

\* three duplicates in a row were processed and packet last_acked_seq + 1,
\* never sent again, is still waiting
C8_Witness ==
    /\ pc = "loop"
    /\ dup_acks = 3
    /\ out = <<>>
    /\ (last_acked_seq + 1) \in DOMAIN unacked_packets
    /\ unacked_packets[last_acked_seq + 1].retry_count = 0
    /\ unacked_packets[last_acked_seq + 1].sent_time = 0
    /\ now > 0

\* C9: an acknowledgment with sequence <= last_acked_seq leaves the table
\* (keys, packets, send times, retry counts, hence every packet's timeout)
\* and the window as they are, and nothing is sent because of it.
C9_OldAckChangesNothing ==
    /\ [][(HandleAckStep /\ ack'.acked_seq <= last_acked_seq) =>
            /\ unacked_packets' = unacked_packets
            /\ window_size' = window_size
            /\ last_acked_seq' = last_acked_seq
            /\ out' = <<>>]_vars
    /\ [][(pc = "proactive" /\ ack.acked_seq <= ack.old_acked) =>
            /\ unacked_packets' = unacked_packets
            /\ window_size' = window_size
            /\ last_acked_seq' = last_acked_seq
            /\ out' = <<>>
            /\ pc' = "loop"]_vars

\* a stale acknowledgment, one to three behind, with the next packet waiting
C9_Witness ==
    /\ pc = "proactive"
    /\ ack.some
    /\ ack.acked_seq < ack.old_acked
    /\ ack.old_acked - ack.acked_seq <= 3
    /\ last_acked_seq = ack.old_acked
    /\ (last_acked_seq + 1) \in DOMAIN unacked_packets

\* C10: a stale acknowledgment (sequence < last_acked_seq) is ignored
\* entirely; the stored check value changes only with new progress.
C10_StaleAckIgnored ==
    [][(HandleAckStep /\ ack'.acked_seq < last_acked_seq) => UNCHANGED state]_vars

\* C4: against the server that leaves buffered packets behind a filled gap,
\* over a network that loses (at most MaxLoss datagrams) and reorders, every
\* run comes to the end of the loop with everything transmitted and nothing
\* unacknowledged, and the global deadline is never met on the way
C4_NoStallAgainstQuirkyServer ==
    /\ [](now <= GLOBAL_TIMEOUT)
    /\ <>(pc = "done" /\ transmitted = size /\ DOMAIN unacked_packets = {})

\* a finished transfer in which a datagram was lost and the server left a
\* buffered packet behind a filled gap
C4_Witness ==
    /\ pc = "done"
    /\ transmitted = size
    /\ DOMAIN unacked_packets = {}
    /\ lost > 0
    /\ rcv.left
    /\ rcv.acked = CeilDiv(size, MAX_PAYLOAD)

\* C11: a datagram of fewer than 5 bytes is discarded: the transmission
\* state stays as it is, nothing is sent because of it, the run does not
\* fail and the loop goes to its next iteration.
C11_ShortAckDiscarded ==
    [][\A ack_buf \in AckDatagrams, d \in AckDelays :
          (Len(ack_buf) < 5 /\ RecvDatagram(ack_buf, d)) =>
              /\ UNCHANGED state
              /\ out' = <<>>
              /\ result' = result
              /\ pc' = "loop"]_vars

\* the loop head after a first datagram that came 3000 ms late and left the
\* check value unset: it was a short one
C11_Witness ==
    /\ pc = "loop"
    /\ now = 3000
    /\ checknum = 0
    /\ last_acked_seq = 0
    /\ DOMAIN unacked_packets # {}
    /\ result = NoResult

\* C12: a socket error other than a timeout, in send_to or in recv_from,
\* ends the run at once with a fatal error, and no step follows it.
C12_SocketErrorIsFatal ==
    /\ [][(SendNewFails \/ RecvError) => (pc' = "failed" /\ ~result'.ok)]_vars
    /\ [][pc # "failed"]_vars

\* recv_from times out: the clock moves by SOCKET_READ_TIMEOUT
TimeoutStep == pc = "recv" /\ now' = now + SOCKET_READ_TIMEOUT

\* the sequence numbers of the datagrams of a step, in the order sent
SeqList(o) == [i \in 1..Len(o) |-> PacketSeq(o[i].packet)]

\* C13, as claimed: on a receive timeout at most one packet is sent again,
\* and it is packet last_acked_seq + 1, its age above its timeout.
C13_AtMostOldestOnTimeout ==
    [][TimeoutStep =>
          /\ Len(out') <= 1
          /\ out' # <<>> =>
                 /\ SeqList(out')[1] = last_acked_seq + 1
                 /\ (last_acked_seq + 1) \in DOMAIN unacked_packets
                 /\ now' - unacked_packets[last_acked_seq + 1].sent_time >
                        calculate_rto(unacked_packets[last_acked_seq + 1].retry_count)
      ]_vars

\* C13, amended: on a receive timeout check_and_retransmit sends again, in
\* ascending sequence order, at most 3 packets (1 when the window is 1, 5
\* with FLOOD_THRESHOLD or more packets unacknowledged), each of them in the
\* table with its age above its timeout (calculate_rto of its retry count,
\* 500 ms in recovery); packet last_acked_seq + 1 goes first when it is in
\* the table and timed out; every packet sent again gets the new send time
\* and one more retry.
C13_TimeoutRetransmits ==
    [][TimeoutStep =>
          LET rec == Cardinality(DOMAIN unacked_packets) >= FLOOD_THRESHOLD
              seqs == SeqList(out')
              next_expected == last_acked_seq + 1
              Rto(s) == IF rec THEN 500
                        ELSE calculate_rto(unacked_packets[s].retry_count)
              Old(s) == now' - unacked_packets[s].sent_time > Rto(s)
          IN  /\ Len(seqs) <= IF rec THEN 5 ELSE IF window_size = 1 THEN 1 ELSE 3
              /\ \A i \in 1..Len(seqs) :
                     /\ out'[i].kind = "retransmit"
                     /\ seqs[i] \in DOMAIN unacked_packets
                     /\ Old(seqs[i])
                     /\ out'[i].packet = unacked_packets[seqs[i]].packet
                     /\ unacked_packets'[seqs[i]].sent_time = now'
                     /\ unacked_packets'[seqs[i]].retry_count =
                            unacked_packets[seqs[i]].retry_count + 1
              /\ \A i \in 1..(Len(seqs) - 1) :
                     seqs[i] < seqs[i + 1] \/ (i = 1 /\ seqs[1] = next_expected)
              /\ (pc' = "loop" /\ next_expected \in DOMAIN unacked_packets
                    /\ Old(next_expected)) =>
                     (seqs # <<>> /\ seqs[1] = next_expected)
              /\ (pc' = "loop" /\ \E s \in DOMAIN unacked_packets : Old(s)) =>
                     seqs # <<>>
      ]_vars

\* the loop head after a receive timeout that sent three packets again
C13_Witness ==
    /\ pc = "loop"
    /\ now >= SOCKET_READ_TIMEOUT
    /\ Len(out) = 3
    /\ \A i \in 1..3 : out[i].kind = "retransmit"
    /\ PacketSeq(out[1].packet) = last_acked_seq + 1

\* the entries a step removes from the table
RemovedBy == DOMAIN unacked_packets \ DOMAIN unacked_packets'

\* C15, as claimed: an acknowledgment that removes k entries from the table
\* applies k growth steps to the window, one that removes none applies none.
C15_GrowthPerAckedSegment ==
    [][HandleAckStep =>
          window_size' = Min(window_size + Cardinality(RemovedBy), MAX_WINDOW)]_vars

\* C15, amended: an acknowledgment with acked_seq > last_acked_seq applies
\* exactly one growth step (one more packet, up to MAX_WINDOW), however many
\* entries it removes; any other acknowledgment applies none.
C15_OneGrowthStepPerProgressAck ==
    [][HandleAckStep =>
          window_size' = IF ack'.acked_seq > last_acked_seq /\ window_size < 50
                         THEN window_size + 1
                         ELSE window_size]_vars

\* the first acknowledgment took three packets out of the table at once and
\* the window is one above its initial size
C15_Witness ==
    /\ pc = "proactive"
    /\ ack.some
    /\ ack.old_acked = 0
    /\ ack.acked_seq = 3
    /\ next_seq > 3
    /\ last_acked_seq = 3
    /\ window_size = INITIAL_WINDOW + 1

\* C14, as claimed: when an acknowledgment makes new progress, the RTT
\* estimator receives the sample now - sent_time of the oldest packet just
\* acknowledged exactly if that packet was never sent again.
C14_KarnSampleFedToEstimator ==
    [][(HandleAckStep /\ ack'.acked_seq > last_acked_seq
          /\ (last_acked_seq + 1) \in DOMAIN unacked_packets) =>
          LET oldest == unacked_packets[last_acked_seq + 1]
          IN  IF oldest.retry_count = 0
              THEN est' = [update(est, now' - oldest.sent_time)
                              EXCEPT !.samples = @ + 1]
              ELSE est' = est]_vars

\* C14, amended: handle_ack takes no round-trip sample, whatever the retry
\* count of the packets it removes: it leaves the estimator and the retry
\* count of every remaining packet alone, and the timeout a packet is held
\* against outside recovery is a function of its retry count only: 1000 ms
\* up to one retry, floor(1000 * log2(retry_count + 1)) ms after, at most
\* 30000 ms.
C14_NoSampleTimeoutByRetryCount ==
    /\ [][HandleAckStep =>
             /\ est' = est
             /\ \A s \in DOMAIN unacked_packets' :
                    unacked_packets'[s].retry_count = unacked_packets[s].retry_count
         ]_vars
    /\ [](\A s \in DOMAIN unacked_packets :
              PacketRto(unacked_packets[s], FALSE) =
                  IF unacked_packets[s].retry_count <= 1 THEN 1000
                  ELSE Min(Log2Milli[unacked_packets[s].retry_count + 1], 30000))

\* the first acknowledgment came after 3000 ms for packet 1 of three, none of
\* them sent again, and one timeout later packet 2 is held against 1000 ms
C14_Witness ==
    /\ pc = "loop"
    /\ last_acked_seq = 1
    /\ next_seq = 4
    /\ now = 3000 + SOCKET_READ_TIMEOUT
    /\ DOMAIN unacked_packets = {2, 3}
    /\ unacked_packets[2].retry_count = 1
    /\ PacketRto(unacked_packets[2], FALSE) = 1000
    /\ est = RttEstimator_new

\* C16: after any sequence of on_ack, on_timeout and on_fast_retransmit
\* calls from the initial state, cwnd is between 1 and 64 and so is window().
C16_CwndInRange ==
    /\ ~FLess(cc.cwnd, Frac(1, 1))
    /\ ~FLess(Frac(64, 1), cc.cwnd)
    /\ window(cc) \in 1..64

\* cwnd has grown from 2 to 64 with ssthresh never lowered: the next on_ack
\* meets the upper limit
C16_Witness ==
    /\ cc.cwnd = Frac(64, 1)
    /\ cc.ssthresh = Frac(64, 1)
    /\ window(cc) = 64

\* C17: on_ack never decreases cwnd: it adds 1 while cwnd < ssthresh, 1/cwnd
\* otherwise, up to 64; on_timeout and on_fast_retransmit never increase it.
C17_AckGrowsLossShrinks ==
    /\ [][OnAck =>
             /\ ~FLess(cc'.cwnd, cc.cwnd)
             /\ cc'.cwnd = FMin(FAdd(cc.cwnd, IF FLess(cc.cwnd, cc.ssthresh)
                                              THEN Frac(1, 1) ELSE FInv(cc.cwnd)),
                                Frac(64, 1))
             /\ cc'.ssthresh = cc.ssthresh]_vars
    /\ [][(OnTimeout \/ OnFastRetransmit) => ~FLess(cc.cwnd, cc'.cwnd)]_vars

\* cwnd stands above ssthresh and is no whole number: it grew by 1/cwnd
C17_Witness ==
    /\ FLess(cc.ssthresh, cc.cwnd)
    /\ cc.cwnd[2] > 1

\* C18: on_timeout and on_fast_retransmit both set ssthresh to
\* max(cwnd / 2, 1); on_timeout then sets cwnd to 1, on_fast_retransmit sets
\* it to the new ssthresh, which is 1 only when cwnd was at most 2.
C18_LossReactions ==
    /\ [][OnTimeout =>
             /\ cc'.ssthresh = FMax(FHalf(cc.cwnd), Frac(1, 1))
             /\ cc'.cwnd = Frac(1, 1)]_vars
    /\ [][OnFastRetransmit =>
             /\ cc'.ssthresh = FMax(FHalf(cc.cwnd), Frac(1, 1))
             /\ cc'.cwnd = cc'.ssthresh
             /\ cc'.cwnd = Frac(1, 1) <=> ~FLess(Frac(2, 1), cc.cwnd)]_vars

\* after a fast retransmit at cwnd = 3: cwnd and ssthresh are both 3/2
C18_Witness ==
    /\ cc.cwnd = Frac(3, 2)
    /\ cc.ssthresh = Frac(3, 2)

\* C19: after any sequence of update and backoff calls from the initial
\* state the RTO is between 200 ms and 10000 ms.
C19_RtoInRange == est.rto \in 200..10000

\* samples were taken and the RTO stands at its lower limit
C19_Witness ==
    /\ est.samples > 0
    /\ est.srtt + 4 * est.rttvar < 200 * RttScale
    /\ est.rto = 200

\* C20: update applies the first-sample rule to the first sample only and the
\* weighted rule to every later one, for every sample value, 0 included; the
\* RTO is then srtt + 4 rttvar held to 200 ms .. 10000 ms.
C20_FirstSampleRuleOnlyOnce ==
    [][\A rtt_ms \in RttSamples : Update(rtt_ms) =>
          /\ est'.srtt = IF est.samples = 0 THEN rtt_ms * RttScale
                         ELSE (7 * est.srtt + rtt_ms * RttScale) \div 8
          /\ est'.rttvar = IF est.samples = 0 THEN (rtt_ms * RttScale) \div 2
                           ELSE (3 * est.rttvar
                                 + Abs(est.srtt - rtt_ms * RttScale)) \div 4
          /\ est'.rto = Clamp(est'.srtt + 4 * est'.rttvar,
                              200 * RttScale, 10000 * RttScale) \div RttScale
      ]_vars

\* backoff called n times in a row
RECURSIVE BackoffTimes(_, _)
BackoffTimes(e, n) == IF n = 0 THEN e ELSE BackoffTimes(backoff(e), n - 1)

\* C21: backoff sets the RTO to min(2 * RTO, 10000 ms) and leaves srtt and
\* rttvar alone, so it never lowers the RTO; called again and again from any
\* state of the estimator it brings the RTO to 10000 ms (six calls are enough
\* from the lowest RTO, 200 ms), where every further call leaves it.
C21_BackoffDoublesToMax ==
    /\ [][Backoff =>
             /\ est'.rto = Min(2 * est.rto, 10000)
             /\ est'.srtt = est.srtt
             /\ est'.rttvar = est.rttvar
             /\ est'.rto >= est.rto]_vars
    /\ [](\A n \in 6..8 : BackoffTimes(est, n).rto = 10000)

\* a sample of 0 ms had put the RTO to 200 ms, and backoff alone has brought
\* it to 10000 ms
C21_Witness ==
    /\ est.samples = 1
    /\ est.srtt = 0
    /\ est.rttvar = 0
    /\ est.rto = 10000

\* C22: while FLOOD_THRESHOLD or more packets are unacknowledged no new
\* packet is sent: every new packet leaves with fewer than FLOOD_THRESHOLD
\* packets in the table, so the table grows past the threshold by no packet
\* sent at or above it.
C22_NoNewPacketAtFloodThreshold ==
    /\ [][NewPackets(out') # {} => Len_unacked < FLOOD_THRESHOLD]_vars
    /\ [][Len_unacked >= FLOOD_THRESHOLD =>
             Cardinality(DOMAIN unacked_packets') <= Len_unacked]_vars

\* an iteration of the loop of transmit_loop begins
IterationBegins == pc = "loop" /\ LoopCond /\ ~DeadlineExceeded

\* C23: an iteration that begins with FLOOD_THRESHOLD or more packets
\* unacknowledged puts the window to 1, sends no new packet (send_new_packets
\* is not entered, and no later step of the iteration sends one) and runs a
\* retransmission pass, which in this mode always finds a packet to send
\* again; an iteration that begins with fewer enters send_new_packets, where
\* a new packet goes out whenever bytes remain and the table holds fewer
\* packets than the window.
C23_RecoveryMode ==
    /\ [][(IterationBegins /\ Len_unacked >= 5) =>
             /\ window_size' = 1
             /\ pc' \in {"recv", "failed"}
             /\ next_seq' = next_seq
             /\ transmitted' = transmitted
             /\ DOMAIN unacked_packets' = DOMAIN unacked_packets
             /\ \A i \in 1..Len(out') : out'[i].kind = "retransmit"
             /\ pc' = "recv" => out' # <<>>]_vars
    /\ [][next_seq' # next_seq => pc = "send"]_vars
    /\ [][(pc' = "send" /\ pc # "send") => (IterationBegins /\ Len_unacked < 5)]_vars
    /\ [][(IterationBegins /\ Len_unacked < 5) =>
             (pc' = "send" /\ UNCHANGED state)]_vars
    /\ [][(pc = "send" /\ transmitted < size /\ Len_unacked < window_size
             /\ pc' # "failed") =>
             (NewPackets(out') # {} /\ next_seq' = next_seq + 1)]_vars

\* ten packets went out at once, the next iteration put the window to 1, an
\* acknowledgment for all ten raised it to 2, and the iteration after that
\* one sends packet 11
C23_Witness ==
    /\ now = 0
    /\ last_acked_seq = 10
    /\ window_size = 2
    /\ next_seq = 12
    /\ Len(out) = 1
    /\ out[1].kind = "new"

\* C24: window_size starts at 10 and is between 1 and 50 in every reachable
\* state; an acknowledgment with new progress raises it by 1 below 50 and
\* leaves it at 50, and no other step raises it.
C24_WindowInRange ==
    /\ window_size = 10
    /\ [](window_size \in 1..50)
    /\ [][HandleAckStep =>
             window_size' = IF ack'.acked_seq > last_acked_seq
                            THEN Min(window_size + 1, 50) ELSE window_size]_vars
    /\ [][~HandleAckStep => window_size' <= window_size]_vars

\* forty-one acknowledgments with new progress, 11 to 51, and no timeout:
\* the last one found the window at 50 and left it there
C24_Witness ==
    /\ pc = "proactive"
    /\ now = 0
    /\ ack.old_acked = 50
    /\ last_acked_seq = 51
    /\ window_size = 50

\* the window was 1, outside recovery, when a timeout sent a packet again
C24_WitnessFloor ==
    /\ pc = "loop"
    /\ now = 15000
    /\ window_size = 1
    /\ out # <<>>
    /\ Len_unacked < FLOOD_THRESHOLD
    /\ \E s \in DOMAIN unacked_packets : unacked_packets[s].retry_count >= 3

\* check_and_retransmit runs: on a receive timeout, or at the head of an
\* iteration that begins with FLOOD_THRESHOLD or more packets unacknowledged
PassStep == TimeoutStep \/ (IterationBegins /\ Len_unacked >= FLOOD_THRESHOLD)

\* C25: a pass of check_and_retransmit sends again at most 1 packet when the
\* window is 2 or less and at most 3 when it is larger, outside recovery, and
\* at most 5 with FLOOD_THRESHOLD or more packets unacknowledged.
C25_PassSize ==
    [][PassStep =>
          Len(out') <= IF Len_unacked >= FLOOD_THRESHOLD THEN 5
                       ELSE IF window_size <= 2 THEN 1 ELSE 3]_vars

\* C26: in a pass of check_and_retransmit packet last_acked_seq + 1, when it
\* is in the table with its age above its timeout, is sent again, before any
\* other; the others sent again are the timed-out packets with the lowest
\* sequence numbers, in increasing order; a packet that has not timed out is
\* sent again only in recovery (FLOOD_THRESHOLD or more unacknowledged) and
\* only when no packet has timed out.
C26_NextExpectedFirst ==
    [][PassStep =>
          LET rec == Len_unacked >= FLOOD_THRESHOLD
              seqs == SeqList(out')
              next_expected == last_acked_seq + 1
              Old(s) == now' - unacked_packets[s].sent_time >
                            IF rec THEN 500
                            ELSE calculate_rto(unacked_packets[s].retry_count)
              timed_out == {s \in DOMAIN unacked_packets : Old(s)}
              others == {seqs[i] : i \in 1..Len(seqs)} \ {next_expected}
          IN  /\ next_expected \in timed_out =>
                     /\ seqs # <<>> => seqs[1] = next_expected
                     /\ pc' # "failed" => seqs # <<>>
              /\ \A i \in 1..Len(seqs) : seqs[i] \in DOMAIN unacked_packets
              /\ \A i \in 1..(Len(seqs) - 1) :
                     seqs[i] < seqs[i + 1] \/ (i = 1 /\ seqs[1] = next_expected)
              /\ \A s \in others : \A u \in timed_out \ {next_expected} :
                     u < s => u \in others
              /\ \A i \in 1..Len(seqs) :
                     seqs[i] \in timed_out \/ (rec /\ timed_out = {})
      ]_vars

\* an iteration began 3000 ms after ten packets went out, none acknowledged:
\* packet 1 and the four after it were sent again
C26_Witness ==
    /\ pc = "recv"
    /\ now = 3000
    /\ last_acked_seq = 0
    /\ window_size = 1
    /\ SeqList(out) = <<1, 2, 3, 4, 5>>
    /\ \A i \in 1..5 : out[i].kind = "retransmit"

\* C27: right after an acknowledgment that advanced last_acked_seq by a,
\* 1 <= a <= 3, the packets last_acked_seq + 1, last_acked_seq + 2, ... are
\* sent again, up to the first sequence number that is not in the table and
\* at most min(2a, 5) of them; after an acknowledgment that advanced by 0 or
\* by more than 3 nothing is sent.
C27_ProactiveRetransmission ==
    [][pc = "proactive" =>
          LET a == IF ack.acked_seq > ack.old_acked
                   THEN ack.acked_seq - ack.old_acked ELSE 0
              most == IF 1 <= a /\ a <= 3 THEN Min(2 * a, 5) ELSE 0
              seqs == SeqList(out')
              n == Len(seqs)
          IN  /\ n <= most
              /\ \A i \in 1..n :
                     /\ seqs[i] = last_acked_seq + i
                     /\ seqs[i] \in DOMAIN unacked_packets
                     /\ out'[i].kind = "proactive"
                     /\ out'[i].packet = unacked_packets[seqs[i]].packet
              /\ (pc' # "failed" /\ n < most) =>
                     (last_acked_seq + n + 1) \notin DOMAIN unacked_packets
              /\ pc' \in {"loop", "failed"}
      ]_vars

\* acknowledgment 2 was the first: packets 3, 4, 5, 6 were sent again at once
C27_Witness ==
    /\ pc = "loop"
    /\ last_acked_seq = 2
    /\ checknum # 0
    /\ SeqList(out) = <<3, 4, 5, 6>>
    /\ \A i \in 1..4 : out[i].kind = "proactive"
    /\ DOMAIN unacked_packets = 3..10

\* acknowledgment 2 came for a transfer of three packets: only packet 3 was
\* left to send again
C27_WitnessGap ==
    /\ pc = "loop"
    /\ last_acked_seq = 2
    /\ SeqList(out) = <<3>>
    /\ out[1].kind = "proactive"
    /\ size = 3000
    /\ result = NoResult

\* the packets a step sent again
ResentBy(o) == {PacketSeq(o[i].packet) : i \in {j \in 1..Len(o) : o[j].kind # "new"}}

\* C28: a packet sent again by check_and_retransmit goes out as the datagram
\* stored for it, gets the time of the resend as its send time and one more
\* retry; a packet sent again proactively gets the new send time and keeps
\* its retry count; the retry count of a packet in the table never goes
\* down, and its stored datagram never changes.
C28_ResendEffects ==
    /\ [][PassStep =>
             /\ \A i \in 1..Len(out') :
                    LET s == PacketSeq(out'[i].packet)
                    IN  /\ out'[i].kind = "retransmit"
                        /\ out'[i].packet = unacked_packets[s].packet
                        /\ unacked_packets'[s].sent_time = now'
                        /\ unacked_packets'[s].retry_count =
                               unacked_packets[s].retry_count + 1
             /\ \A s \in DOMAIN unacked_packets \ ResentBy(out') :
                    unacked_packets'[s] = unacked_packets[s]]_vars
    /\ [][pc = "proactive" =>
             /\ \A i \in 1..Len(out') :
                    LET s == PacketSeq(out'[i].packet)
                    IN  /\ out'[i].kind = "proactive"
                        /\ out'[i].packet = unacked_packets[s].packet
                        /\ unacked_packets'[s].sent_time = now'
                        /\ unacked_packets'[s].retry_count =
                               unacked_packets[s].retry_count
             /\ \A s \in DOMAIN unacked_packets \ ResentBy(out') :
                    unacked_packets'[s] = unacked_packets[s]]_vars
    /\ [][\A s \in DOMAIN unacked_packets \cap DOMAIN unacked_packets' :
             /\ unacked_packets'[s].retry_count >= unacked_packets[s].retry_count
             /\ unacked_packets'[s].packet = unacked_packets[s].packet]_vars

\* packets 1, 2, 3 were sent again on the timeout at 5000 ms; acknowledgment
\* 1 came 3000 ms later and packets 2 and 3 went out once more, proactively,
\* still with one retry
C28_Witness ==
    /\ pc = "loop"
    /\ now = 8000
    /\ last_acked_seq = 1
    /\ SeqList(out) = <<2, 3>>
    /\ out[1].kind = "proactive"
    /\ unacked_packets[2].retry_count = 1
    /\ unacked_packets[2].sent_time = 8000

\* C29: a pass of check_and_retransmit that sends a packet again with fewer
\* than FLOOD_THRESHOLD packets unacknowledged leaves the window at
\* max(floor(window / 2), 1); a pass in recovery and a pass that sends
\* nothing leave the window as they found it (at the head of a recovery
\* iteration that is 1, set before the pass).
C29_WindowHalvedOnTimeout ==
    [][(PassStep /\ pc' # "failed") =>
          LET win == IF TimeoutStep THEN window_size ELSE 1
          IN  window_size' = IF out' # <<>> /\ Len_unacked < FLOOD_THRESHOLD
                             THEN Max(win \div 2, 1)
                             ELSE win]_vars

\* three packets and no answer: the window went 10, 5, 2, 1, and the timeout
\* at 20 s sent packets again and left it at 1
C29_Witness ==
    /\ pc = "loop"
    /\ now = 20000
    /\ window_size = 1
    /\ out # <<>>
    /\ Len_unacked = 3
    /\ unacked_packets[1].retry_count = 4

\* C30: last_acked_seq is never above the highest sequence number sent so
\* far, next_seq - 1, whatever acknowledgments are received.
C30_AckedWithinSent == last_acked_seq <= next_seq - 1

\* C31: no step lowers last_acked_seq, next_seq or transmitted: an
\* acknowledgment, new, duplicate or stale, moves last_acked_seq forward or
\* leaves it, and only the sending of a new packet changes next_seq and
\* transmitted, upward.
C31_CountersNeverDecrease ==
    /\ [][/\ last_acked_seq' >= last_acked_seq
          /\ next_seq' >= next_seq
          /\ transmitted' >= transmitted]_vars
    /\ [][HandleAckStep =>
             last_acked_seq' = Max(last_acked_seq, ack'.acked_seq)]_vars

\* acknowledgment 8 let the eleventh packet out and a stale acknowledgment
\* came after it: last_acked_seq is still 8
C31_Witness ==
    /\ pc = "proactive"
    /\ ack.some
    /\ ack.acked_seq < ack.old_acked
    /\ last_acked_seq = 8
    /\ next_seq = 12
    /\ transmitted = size
    /\ checknum # 0

\* C32: the table of unacknowledged packets never holds more than
\* MAX_WINDOW = 50 packets: a packet enters it only while it holds fewer
\* packets than window_size, which is at most 50.
C32_InFlightWithinMaxWindow ==
    /\ [](Len_unacked <= 50)
    /\ [][Cardinality(DOMAIN unacked_packets') > Len_unacked =>
             /\ Len_unacked < window_size
             /\ window_size <= 50
             /\ Cardinality(DOMAIN unacked_packets') = Len_unacked + 1]_vars

\* the window is 50, fifty packets are in the table and bytes are left over
C32_Witness ==
    /\ pc = "send"
    /\ window_size = 50
    /\ Len_unacked = 50
    /\ transmitted < size

\* C33: a pass of check_and_retransmit and a proactive resend add no entry
\* to the table and remove none, and leave last_acked_seq, next_seq,
\* transmitted, the stored check value and the stored datagram of every
\* packet as they are.
C33_RetransmissionKeepsOutstanding ==
    [][(PassStep \/ pc = "proactive") =>
          /\ DOMAIN unacked_packets' = DOMAIN unacked_packets
          /\ \A s \in DOMAIN unacked_packets :
                 unacked_packets'[s].packet = unacked_packets[s].packet
          /\ last_acked_seq' = last_acked_seq
          /\ next_seq' = next_seq
          /\ transmitted' = transmitted
          /\ checknum' = checknum]_vars

\* acknowledgment 1 came 3000 ms after ten packets went out, packets 2 and 3
\* were sent again proactively, and the recovery pass of the next iteration
\* sent packets 2 to 6 again: packets 2 to 10 are outstanding as before
C33_Witness ==
    /\ pc = "recv"
    /\ now = 3000
    /\ last_acked_seq = 1
    /\ checknum # 0
    /\ next_seq = 11
    /\ DOMAIN unacked_packets = 2..10
    /\ SeqList(out) = <<2, 3, 4, 5, 6>>
    /\ \A i \in 1..5 : out[i].kind = "retransmit"

====
